---- MODULE Spec2Model ----
(***************************************************************************)
(* Model of parcel_sourcemap/src/sourcemap_error.rs: the error taxonomy    *)
(* (SourceMapErrorType), the carrier (SourceMapError), the conversions     *)
(* from foreign failures (vlq, io, rkyv, utf-8) and the two host adapters  *)
(* (napi::Error and wasm_bindgen::JsValue).                                *)
(*                                                                         *)
(* Text is a TLA+ string.  A Rust String is an owned heap buffer: the      *)
(* model keeps a heap of text cells, the caller's buffer at BufAddr and    *)
(* one cell per failing call for the String its carrier owns.              *)
(***************************************************************************)
EXTENDS Integers, Sequences, FiniteSets, TLC

VARIABLES features, heap, carrier, hostErr, origin, made, consumed

vars == <<features, heap, carrier, hostErr, origin, made, consumed>>

----------------------------------------------------------------------------
(* Bounds and input sets *)

MaxReasonLen == 1

ReasonChars == {","}

ExampleReasons == {"index 42 >= 10 sources"}

RECURSIVE TextsUpTo(_)
TextsUpTo(n) ==
  IF n = 0 THEN {""}
  ELSE LET shorter == TextsUpTo(n - 1)
       IN shorter \cup {s \o ch : s \in shorter, ch \in ReasonChars}

Reasons == TextsUpTo(MaxReasonLen) \cup ExampleReasons

Calls == {"c1", "c2"}

BufAddr == "buf"

Addrs == Calls \cup {BufAddr}

OffendingBytes == {0, 255}

----------------------------------------------------------------------------
(* Option<T> *)

None == [tag |-> "None"]

Some(v) == [tag |-> "Some", val |-> v]

(* Heap cells *)

FreeCell == [alloc |-> FALSE, text |-> ""]

TextCell(t) == [alloc |-> TRUE, text |-> t]

----------------------------------------------------------------------------
(* enum SourceMapErrorType, #[repr(u32)] *)

SourceMapErrorType ==
  {"UnexpectedNegativeNumber", "UnexpectedlyBigNumber", "VlqUnexpectedEof",
   "VlqInvalidBase64", "VlqOverflow", "IOError", "NameOutOfRange",
   "SourceOutOfRange", "BufferError", "InvalidFilePath", "FromUtf8Error"}

DiscriminantFromZero(error_type) ==
  CASE error_type = "UnexpectedNegativeNumber" -> 0
    [] error_type = "UnexpectedlyBigNumber" -> 1
    [] error_type = "VlqUnexpectedEof" -> 2
    [] error_type = "VlqInvalidBase64" -> 3
    [] error_type = "VlqOverflow" -> 4
    [] error_type = "IOError" -> 5
    [] error_type = "NameOutOfRange" -> 6
    [] error_type = "SourceOutOfRange" -> 7
    [] error_type = "BufferError" -> 8
    [] error_type = "InvalidFilePath" -> 9
    [] error_type = "FromUtf8Error" -> 10

Discriminant(error_type) ==
  CASE error_type = "UnexpectedNegativeNumber" -> 1
    [] error_type = "UnexpectedlyBigNumber" -> 2
    [] error_type = "VlqUnexpectedEof" -> 3
    [] error_type = "VlqInvalidBase64" -> 4
    [] error_type = "VlqOverflow" -> 5
    [] error_type = "IOError" -> 6
    [] error_type = "NameOutOfRange" -> 7
    [] error_type = "SourceOutOfRange" -> 8
    [] error_type = "BufferError" -> 9
    [] error_type = "InvalidFilePath" -> 10
    [] error_type = "FromUtf8Error" -> 11

----------------------------------------------------------------------------
(* struct SourceMapError and its constructors *)

StringFromBorrowed(src, fresh) ==
  src

(* String::from(reason): the text behind the borrow src is copied into a   *)
(* newly allocated buffer, whose address is the String.                    *)
StringFrom(src, fresh) ==
  fresh

new(error_type) ==
  [error_type |-> error_type, reason |-> None]

new_with_reason(error_type, reason, fresh) ==
  [error_type |-> error_type, reason |-> Some(StringFrom(reason, fresh))]

----------------------------------------------------------------------------
(* Foreign failures *)

VlqErrors ==
  {[variant |-> "UnexpectedEof"], [variant |-> "Overflow"]}
    \cup {[variant |-> "InvalidBase64", byte |-> b] : b \in OffendingBytes}

IoErrors ==
  {[kind |-> k] : k \in {"NotFound", "UnexpectedEof"}}

Unreachable == [unit |-> "rkyv::Unreachable"]

Utf8Errors ==
  {[valid_up_to |-> n] : n \in {0, 1}}

from_vlq_swapped(e) ==
  CASE e.variant = "UnexpectedEof" -> new("VlqUnexpectedEof")
    [] e.variant = "InvalidBase64" -> new("VlqOverflow")
    [] e.variant = "Overflow" -> new("VlqInvalidBase64")

from_vlq(e) ==
  CASE e.variant = "UnexpectedEof" -> new("VlqUnexpectedEof")
    [] e.variant = "InvalidBase64" -> new("VlqInvalidBase64")
    [] e.variant = "Overflow" -> new("VlqOverflow")

from_io(err) ==
  new("IOError")

from_unreachable(err) ==
  new("BufferError")

from_utf8_as_buffer(err) ==
  new("BufferError")

from_utf8(err) ==
  new("FromUtf8Error")

----------------------------------------------------------------------------
(* Host adapters *)

NativeAlways(f) ==
  TRUE

(* The two impls are gated by separate #[cfg(feature = ...)] attributes.    *)
(* Cargo features are additive: a build configuration is any subset of      *)
(* {"native", "wasm"}, and neither attribute mentions the other feature.    *)
NativeEnabled(f) ==
  "native" \in f

WasmEnabled(f) ==
  "wasm" \in f

napi_phrase_adverb(error_type) ==
  CASE error_type = "UnexpectedNegativeNumber" -> "Unexpected Negative Number"
    [] error_type = "UnexpectedlyBigNumber" -> "Unexpectedly Big Number"
    [] error_type = "VlqUnexpectedEof" -> "VLQ Unexpected end of file"
    [] error_type = "VlqInvalidBase64" -> "VLQ Invalid Base 64 value"
    [] error_type = "VlqOverflow" -> "VLQ Value overflowed, does not fit in u32"
    [] error_type = "IOError" -> "IO Error"
    [] error_type = "NameOutOfRange" -> "Name out of range"
    [] error_type = "SourceOutOfRange" -> "Source out of range"
    [] error_type = "InvalidFilePath" -> "Invalid FilePath"
    [] error_type = "BufferError" ->
         "Something went wrong while writing/reading a sourcemap buffer"
    [] error_type = "FromUtf8Error" -> "Could not convert utf-8 array to string"

napi_phrase(error_type) ==
  CASE error_type = "UnexpectedNegativeNumber" -> "Unexpected Negative Number"
    [] error_type = "UnexpectedlyBigNumber" -> "Unexpected Big Number"
    [] error_type = "VlqUnexpectedEof" -> "VLQ Unexpected end of file"
    [] error_type = "VlqInvalidBase64" -> "VLQ Invalid Base 64 value"
    [] error_type = "VlqOverflow" -> "VLQ Value overflowed, does not fit in u32"
    [] error_type = "IOError" -> "IO Error"
    [] error_type = "NameOutOfRange" -> "Name out of range"
    [] error_type = "SourceOutOfRange" -> "Source out of range"
    [] error_type = "InvalidFilePath" -> "Invalid FilePath"
    [] error_type = "BufferError" ->
         "Something went wrong while writing/reading a sourcemap buffer"
    [] error_type = "FromUtf8Error" -> "Could not convert utf-8 array to string"

wasm_phrase_lowercase_io(error_type) ==
  CASE error_type = "UnexpectedNegativeNumber" -> "Unexpected Negative Number"
    [] error_type = "UnexpectedlyBigNumber" -> "Unexpected Big Number"
    [] error_type = "VlqUnexpectedEof" -> "VLQ Unexpected end of file"
    [] error_type = "VlqInvalidBase64" -> "VLQ Invalid Base 64 value"
    [] error_type = "VlqOverflow" -> "VLQ Value overflowed, does not fit in u32"
    [] error_type = "IOError" -> "IO error"
    [] error_type = "NameOutOfRange" -> "Name out of range"
    [] error_type = "SourceOutOfRange" -> "Source out of range"
    [] error_type = "InvalidFilePath" -> "Invalid FilePath"
    [] error_type = "BufferError" ->
         "Something went wrong while writing/reading a sourcemap buffer"
    [] error_type = "FromUtf8Error" -> "Could not convert utf-8 array to string"

wasm_phrase(error_type) ==
  CASE error_type = "UnexpectedNegativeNumber" -> "Unexpected Negative Number"
    [] error_type = "UnexpectedlyBigNumber" -> "Unexpected Big Number"
    [] error_type = "VlqUnexpectedEof" -> "VLQ Unexpected end of file"
    [] error_type = "VlqInvalidBase64" -> "VLQ Invalid Base 64 value"
    [] error_type = "VlqOverflow" -> "VLQ Value overflowed, does not fit in u32"
    [] error_type = "IOError" -> "IO Error"
    [] error_type = "NameOutOfRange" -> "Name out of range"
    [] error_type = "SourceOutOfRange" -> "Source out of range"
    [] error_type = "InvalidFilePath" -> "Invalid FilePath"
    [] error_type = "BufferError" ->
         "Something went wrong while writing/reading a sourcemap buffer"
    [] error_type = "FromUtf8Error" -> "Could not convert utf-8 array to string"

napi_from_glued(err, mem) ==
  LET prefixed == "[parcel-sourcemap] "
      phrased == prefixed \o napi_phrase(err.error_type)
      reason == IF err.reason # None
                  THEN phrased \o mem[err.reason.val].text
                  ELSE phrased
  IN [host |-> "native", object |-> "napi::Error(GenericFailure)",
      message |-> reason]

(* impl From<SourceMapError> for napi::Error; mem is the heap the owned    *)
(* reason String lives in.                                                 *)
napi_from(err, mem) ==
  LET prefixed == "[parcel-sourcemap] "
      phrased == prefixed \o napi_phrase(err.error_type)
      reason == IF err.reason # None
                  THEN (phrased \o ", ") \o mem[err.reason.val].text
                  ELSE phrased
  IN [host |-> "native", object |-> "napi::Error(GenericFailure)",
      message |-> reason]

wasm_from_skip_empty(err, mem) ==
  LET prefixed == "[parcel-sourcemap] "
      phrased == prefixed \o wasm_phrase(err.error_type)
      reason == IF err.reason # None /\ mem[err.reason.val].text # ""
                  THEN (phrased \o ", ") \o mem[err.reason.val].text
                  ELSE phrased
  IN [host |-> "wasm", object |-> "js_sys::Error", message |-> reason]

(* impl From<SourceMapError> for wasm_bindgen::JsValue *)
wasm_from(err, mem) ==
  LET prefixed == "[parcel-sourcemap] "
      phrased == prefixed \o wasm_phrase(err.error_type)
      reason == IF err.reason # None
                  THEN (phrased \o ", ") \o mem[err.reason.val].text
                  ELSE phrased
  IN [host |-> "wasm", object |-> "js_sys::Error", message |-> reason]

DropEveryString(mem, a) ==
  [x \in DOMAIN mem |-> FreeCell]

(* The String moved out of err.reason is dropped when the conversion       *)
(* returns: its buffer is released.                                        *)
DropString(mem, a) ==
  [mem EXCEPT ![a] = FreeCell]

----------------------------------------------------------------------------
(* Observed value of a carrier: its kind and the text its reason holds *)

Dangling == [tag |-> "Dangling"]

Observe(err, mem) ==
  [error_type |-> err.error_type,
   reason |-> IF err.reason = None THEN None
              ELSE IF mem[err.reason.val].alloc
                     THEN Some(mem[err.reason.val].text)
                     ELSE Dangling]

View(c) ==
  Observe(carrier[c].val, heap)

NoOrigin == [op |-> "none"]

----------------------------------------------------------------------------
(* State machine *)

Init ==
  /\ features \in SUBSET {"native", "wasm"}
  /\ heap = [a \in Addrs |-> FreeCell]
  /\ carrier = [c \in Calls |-> None]
  /\ hostErr = [c \in Calls |-> None]
  /\ origin = [c \in Calls |-> NoOrigin]
  /\ made = [c \in Calls |-> None]
  /\ consumed = [c \in Calls |-> None]

(* The caller fills (or refills) the text buffer it will lend as &str *)
CallerWrite(r) ==
  /\ heap[BufAddr] # TextCell(r)
  /\ heap' = [heap EXCEPT ![BufAddr] = TextCell(r)]
  /\ UNCHANGED <<features, carrier, hostErr, origin, made, consumed>>

(* The caller releases its text buffer *)
CallerFree ==
  /\ heap[BufAddr].alloc
  /\ heap' = [heap EXCEPT ![BufAddr] = FreeCell]
  /\ UNCHANGED <<features, carrier, hostErr, origin, made, consumed>>

Construct(c, err, mem, how) ==
  /\ origin[c] = NoOrigin
  /\ carrier' = [carrier EXCEPT ![c] = Some(err)]
  /\ heap' = mem
  /\ origin' = [origin EXCEPT ![c] = how]
  /\ made' = [made EXCEPT ![c] = Some(Observe(err, mem))]
  /\ UNCHANGED <<features, hostErr, consumed>>

New(c, error_type) ==
  Construct(c, new(error_type), heap,
            [op |-> "new", error_type |-> error_type])

NewWithReason(c, error_type) ==
  /\ heap[BufAddr].alloc
  /\ LET err == new_with_reason(error_type, BufAddr, c)
     IN Construct(c, err,
                  [heap EXCEPT ![err.reason.val] = TextCell(heap[BufAddr].text)],
                  [op |-> "new_with_reason", error_type |-> error_type,
                   reason |-> heap[BufAddr].text])

FromVlq(c, e) ==
  Construct(c, from_vlq(e), heap, [op |-> "from_vlq", e |-> e])

FromIo(c, e) ==
  Construct(c, from_io(e), heap, [op |-> "from_io", e |-> e])

FromUnreachable(c) ==
  Construct(c, from_unreachable(Unreachable), heap,
            [op |-> "from_unreachable", e |-> Unreachable])

FromUtf8(c, e) ==
  Construct(c, from_utf8(e), heap, [op |-> "from_utf8", e |-> e])

Render(c, result) ==
  /\ carrier[c] # None
  /\ hostErr' = [hostErr EXCEPT ![c] = Some(result)]
  /\ consumed' = [consumed EXCEPT ![c] = Some(View(c))]
  /\ heap' = IF carrier[c].val.reason # None
               THEN DropString(heap, carrier[c].val.reason.val)
               ELSE heap
  /\ carrier' = [carrier EXCEPT ![c] = None]
  /\ UNCHANGED <<features, origin, made>>

RenderNative(c) ==
  /\ NativeEnabled(features)
  /\ carrier[c] # None
  /\ Render(c, napi_from(carrier[c].val, heap))

RenderWasm(c) ==
  /\ WasmEnabled(features)
  /\ carrier[c] # None
  /\ Render(c, wasm_from(carrier[c].val, heap))

Next ==
  \/ \E r \in Reasons : CallerWrite(r)
  \/ CallerFree
  \/ \E c \in Calls, k \in SourceMapErrorType : New(c, k)
  \/ \E c \in Calls, k \in SourceMapErrorType : NewWithReason(c, k)
  \/ \E c \in Calls, e \in VlqErrors : FromVlq(c, e)
  \/ \E c \in Calls, e \in IoErrors : FromIo(c, e)
  \/ \E c \in Calls : FromUnreachable(c)
  \/ \E c \in Calls, e \in Utf8Errors : FromUtf8(c, e)
  \/ \E c \in Calls : RenderNative(c)
  \/ \E c \in Calls : RenderWasm(c)

Spec == Init /\ [][Next]_vars

----------------------------------------------------------------------------
(* Vocabulary of the properties *)

Tag == "[parcel-sourcemap] "

Separator == ", "

IsPrefix(p, s) ==
  Len(p) <= Len(s) /\ SubSeq(s, 1, Len(p)) = p

EndsWith(s, t) ==
  Len(t) <= Len(s) /\ SubSeq(s, Len(s) - Len(t) + 1, Len(s)) = t

Rendered(c) == hostErr[c] # None

Message(c) == hostErr[c].val.message

Host(c) == hostErr[c].val.host

(* The phrase table of the documentation (section 4.3) *)
PhraseTable(k) ==
  CASE k = "UnexpectedNegativeNumber" -> "Unexpected Negative Number"
    [] k = "UnexpectedlyBigNumber" -> "Unexpected Big Number"
    [] k = "VlqUnexpectedEof" -> "VLQ Unexpected end of file"
    [] k = "VlqInvalidBase64" -> "VLQ Invalid Base 64 value"
    [] k = "VlqOverflow" -> "VLQ Value overflowed, does not fit in u32"
    [] k = "IOError" -> "IO Error"
    [] k = "NameOutOfRange" -> "Name out of range"
    [] k = "SourceOutOfRange" -> "Source out of range"
    [] k = "InvalidFilePath" -> "Invalid FilePath"
    [] k = "BufferError" ->
         "Something went wrong while writing/reading a sourcemap buffer"
    [] k = "FromUtf8Error" -> "Could not convert utf-8 array to string"

(* The numeric identities the documentation lists *)
IdentityTable ==
  [UnexpectedNegativeNumber |-> 1, UnexpectedlyBigNumber |-> 2,
   VlqUnexpectedEof |-> 3, VlqInvalidBase64 |-> 4, VlqOverflow |-> 5,
   IOError |-> 6, NameOutOfRange |-> 7, SourceOutOfRange |-> 8,
   BufferError |-> 9, InvalidFilePath |-> 10, FromUtf8Error |-> 11]

(* The conversion table of the documentation (section 4.2) for VLQ *)
VlqKindTable(variant) ==
  CASE variant = "UnexpectedEof" -> "VlqUnexpectedEof"
    [] variant = "InvalidBase64" -> "VlqInvalidBase64"
    [] variant = "Overflow" -> "VlqOverflow"

----------------------------------------------------------------------------
(* C1: a carrier rendered with no reason, by either adapter, yields exactly *)
(* the tag followed by the non-empty phrase the phrase table gives its      *)
(* kind; no rendered message is empty.                                      *)
C1_NoReasonMessage ==
  \A c \in Calls :
    Rendered(c) =>
      /\ Message(c) # ""
      /\ consumed[c].val.reason = None =>
           /\ PhraseTable(consumed[c].val.error_type) # ""
           /\ Message(c) = Tag \o PhraseTable(consumed[c].val.error_type)

C1_Witness ==
  \E c, d \in Calls :
    /\ Rendered(c) /\ Host(c) = "native"
    /\ consumed[c].val = [error_type |-> "UnexpectedlyBigNumber", reason |-> None]
    /\ Rendered(d) /\ Host(d) = "wasm"
    /\ consumed[d].val = [error_type |-> "BufferError", reason |-> None]

(* C2: new_with_reason(k, r) then render gives tag + phrase(k) + ", " + r,  *)
(* for every r including the empty text; new(k) then render gives exactly   *)
(* tag + phrase(k), with no separator and no trailing comma.                *)
C2_ReasonAppended ==
  \A c \in Calls :
    Rendered(c) =>
      /\ origin[c].op = "new_with_reason" =>
           /\ Message(c) = ((Tag \o PhraseTable(origin[c].error_type))
                              \o Separator) \o origin[c].reason
           /\ EndsWith(Message(c), Separator \o origin[c].reason)
      /\ origin[c].op = "new" =>
           /\ Message(c) = Tag \o PhraseTable(origin[c].error_type)
           /\ ~EndsWith(Message(c), ",")
           /\ ~EndsWith(Message(c), Separator)

C2_Witness ==
  \E c, d \in Calls :
    /\ Rendered(c)
    /\ origin[c] = [op |-> "new_with_reason", error_type |-> "SourceOutOfRange",
                    reason |-> "index 42 >= 10 sources"]
    /\ Message(c) =
         "[parcel-sourcemap] Source out of range, index 42 >= 10 sources"
    /\ Rendered(d) /\ Host(d) = "wasm"
    /\ origin[d].op = "new_with_reason" /\ origin[d].reason = ""

(* C3: the two adapters agree on the message text: equal carriers render to *)
(* equal messages whichever adapter renders them.                           *)
C3_HostIndependent ==
  \A c, d \in Calls :
    (Rendered(c) /\ Rendered(d) /\ consumed[c] = consumed[d])
       => Message(c) = Message(d)

C3_Witness ==
  \E c, d \in Calls :
    /\ Rendered(c) /\ Rendered(d)
    /\ Host(c) = "native" /\ Host(d) = "wasm"
    /\ consumed[c] = consumed[d]
    /\ consumed[c].val = [error_type |-> "IOError", reason |-> Some(",")]

(* C4: a VLQ decode failure converts to exactly the kind of its variant     *)
(* (whatever the offending byte), with no reason, and then renders to the   *)
(* tag followed by the phrase of that kind.                                 *)
C4_VlqConversion ==
  \A c \in Calls :
    origin[c].op = "from_vlq" =>
      /\ made[c] = Some([error_type |-> VlqKindTable(origin[c].e.variant),
                         reason |-> None])
      /\ Rendered(c) =>
           Message(c) = Tag \o PhraseTable(VlqKindTable(origin[c].e.variant))

C4_Witness ==
  \E c, d \in Calls :
    /\ origin[c] = [op |-> "from_vlq", e |-> [variant |-> "UnexpectedEof"]]
    /\ Rendered(c) /\ Host(c) = "native"
    /\ Message(c) = "[parcel-sourcemap] VLQ Unexpected end of file"
    /\ origin[d] = [op |-> "from_vlq",
                    e |-> [variant |-> "InvalidBase64", byte |-> 255]]
    /\ Rendered(d)

(* C5: every I/O failure, every rkyv::Unreachable and every UTF-8 decoding  *)
(* failure converts to IOError, BufferError and FromUtf8Error respectively, *)
(* with no reason, whatever its detail.                                     *)
C5_ConstantConversions ==
  \A c \in Calls :
    /\ origin[c].op = "from_io" =>
         made[c] = Some([error_type |-> "IOError", reason |-> None])
    /\ origin[c].op = "from_unreachable" =>
         made[c] = Some([error_type |-> "BufferError", reason |-> None])
    /\ origin[c].op = "from_utf8" =>
         /\ made[c] = Some([error_type |-> "FromUtf8Error", reason |-> None])
         /\ Rendered(c) =>
              Message(c) =
                "[parcel-sourcemap] Could not convert utf-8 array to string"

C5_Witness ==
  \E c, d \in Calls :
    /\ origin[c].op = "from_utf8" /\ origin[d].op = "from_utf8"
    /\ origin[c].e # origin[d].e
    /\ made[c] = made[d]
    /\ Rendered(c) /\ Rendered(d)

IdentitiesAsDocumented ==
  /\ \A k \in SourceMapErrorType :
       /\ Discriminant(k) = IdentityTable[k]
       /\ Discriminant(k) # 0
  /\ \A k1, k2 \in SourceMapErrorType :
       k1 # k2 => Discriminant(k1) # Discriminant(k2)
  /\ {Discriminant(k) : k \in SourceMapErrorType} = 1..11

(* C6: the kinds have the identities 1..11 of the documented table, all     *)
(* non-zero and pairwise distinct, and no constructed carrier has a kind of *)
(* identity 0.                                                              *)
C6_Identities ==
  /\ IdentitiesAsDocumented
  /\ \A c \in Calls :
       made[c] # None =>
         /\ made[c].val.error_type \in SourceMapErrorType
         /\ Discriminant(made[c].val.error_type) # 0

C6_Witness ==
  \E c, d \in Calls :
    /\ origin[c].op = "new" /\ made[c] # None
    /\ Discriminant(made[c].val.error_type) = 1
    /\ origin[d].op = "from_utf8" /\ made[d] # None
    /\ Discriminant(made[d].val.error_type) = 11

(* C7: new(k) gives a carrier of kind k with no reason; new_with_reason(k,  *)
(* r) gives a carrier of kind k whose reason is r, held as an owned copy:   *)
(* it stays r whatever the caller later does with its buffer.               *)
C7_ConstructionPreserves ==
  \A c \in Calls :
    carrier[c] # None =>
      /\ origin[c].op = "new" =>
           View(c) = [error_type |-> origin[c].error_type, reason |-> None]
      /\ origin[c].op = "new_with_reason" =>
           View(c) = [error_type |-> origin[c].error_type,
                      reason |-> Some(origin[c].reason)]

C7_Witness ==
  \E c, d \in Calls :
    /\ carrier[c] # None /\ origin[c].op = "new_with_reason"
    /\ origin[c].reason = ""
    /\ carrier[d] # None /\ origin[d].op = "new_with_reason"
    /\ origin[d].reason = "index 42 >= 10 sources"
    /\ ~heap[BufAddr].alloc

C9_Immutable ==
  /\ [](\A c \in Calls :
          /\ carrier[c] # None => Some(View(c)) = made[c]
          /\ consumed[c] # None => consumed[c] = made[c])
  /\ [][\A c \in Calls :
          /\ (carrier[c] # None /\ carrier'[c] # None) =>
               carrier'[c] = carrier[c]
          /\ (carrier[c] # None /\ carrier'[c] = None) =>
               hostErr[c] = None /\ hostErr'[c] # None
          /\ hostErr'[c] # hostErr[c] =>
               /\ heap'[BufAddr] = heap[BufAddr]
               /\ \A d \in Calls \ {c} :
                    /\ carrier'[d] = carrier[d]
                    /\ hostErr'[d] = hostErr[d]
                    /\ heap'[d] = heap[d]]_vars

C9_Witness ==
  \E c, d \in Calls :
    /\ Rendered(c) /\ consumed[c].val.reason = Some(",")
    /\ carrier[d] # None
    /\ View(d) = [error_type |-> "NameOutOfRange",
                  reason |-> Some("index 42 >= 10 sources")]
    /\ heap[BufAddr] = TextCell("")

PhrasesPrefixFree ==
  \A k1, k2 \in SourceMapErrorType :
    k1 # k2 =>
      /\ ~IsPrefix(napi_phrase(k1), napi_phrase(k2))
      /\ ~IsPrefix(napi_phrase(k1) \o Separator, napi_phrase(k2))
      /\ ~IsPrefix(wasm_phrase(k1), wasm_phrase(k2))
      /\ ~IsPrefix(wasm_phrase(k1) \o Separator, wasm_phrase(k2))

(* C10: rendering is injective: two carriers that differ in kind or in      *)
(* reason (an absent reason differing from an empty one) render to          *)
(* different messages by either adapter, and no kind's phrase, alone or     *)
(* followed by ", ", is a prefix of another kind's phrase.                  *)
C10_Injective ==
  /\ \A c, d \in Calls :
       (Rendered(c) /\ Rendered(d) /\ consumed[c] # consumed[d])
          => Message(c) # Message(d)
  /\ PhrasesPrefixFree

C10_Witness ==
  \E c, d \in Calls :
    /\ Rendered(c) /\ Rendered(d)
    /\ Host(c) = "native" /\ Host(d) = "native"
    /\ consumed[c].val = [error_type |-> "VlqOverflow", reason |-> None]
    /\ consumed[d].val = [error_type |-> "VlqOverflow", reason |-> Some("")]

====
